---- MODULE Spec2Model ----
(***************************************************************************)
(* appbase/publishers.py: the flaskapi request adapter, the dbtransaction  *)
(* wrapper, the protected authorization gate, add_url_rule and the two     *)
(* publishers (RESTPublisher.map_resource, HTTPPublisher.add_mapping).     *)
(*                                                                         *)
(* Python values are modelled as follows.  A dict (kw, cookies, headers,   *)
(* an object's attributes) is a function whose DOMAIN is the set of keys   *)
(* that are present.  None is the string "None".  A callable is a record   *)
(* [wrappers, fn]: the decorators applied to the handler fn, outermost     *)
(* first.  The collaborators db.tr_start/tr_complete/tr_abort and          *)
(* sessionlib.sid2uidgroups are calls that return; each call is recorded   *)
(* in the trace of the request being served.                               *)
(***************************************************************************)
EXTENDS Integers, Sequences, FiniteSets, TLC

VARIABLES
    current,     \* context.current: the attributes of the process-wide holder
    request,     \* the request being served (flask.request), or NoRequest
    trace,       \* the calls made while serving `request`, in order
    response,    \* what the view function returned or raised for `request`
    url_map,     \* the calls received by app.add_url_rule, in order
    add_mapping_defaults,  \* the default `methods` list object of add_mapping
    last_call    \* the last publisher call and what it raised

vars == <<current, request, trace, response, url_map, add_mapping_defaults, last_call>>

None == "None"

EmptyDict == [k \in {} |-> None]

\* dict.get(key, default)
Get(d, k, default) == IF k \in DOMAIN d THEN d[k] ELSE default

\* dict.update(other) (also: setattr on an object for a one-key `other`)
Update(d, other) ==
    [k \in DOMAIN d \cup DOMAIN other |-> IF k \in DOMAIN other THEN other[k] ELSE d[k]]

\* the dict left by dict.pop(key, default)
Without(d, k) == [x \in DOMAIN d \ {k} |-> d[x]]

SetAttr(obj, name, value) == Update(obj, [k \in {name} |-> value])

\* truth value of a str-or-None
Truthy(s) == s # None /\ s # ""

Append1(s, ev, arg) == Append(s, [ev |-> ev, arg |-> arg])

Events(s) == [i \in DOMAIN s |-> s[i].ev]

----------------------------------------------------------------------------
(* Collaborators and inputs *)

\* appbase.context.current before any request: an object with no attributes
NewContext == EmptyDict

\* session ids known to the session store, and what sid2uidgroups returns
SessionStore ==
    [s \in {"sid/admin", "sid-guest"} |->
        IF s = "sid/admin" THEN [uid |-> 1, groups |-> {"admin", "staff"}]
                           ELSE [uid |-> 2, groups |-> {"guest"}]]

sid2uidgroups(session_id) == SessionStore[session_id]

\* urllib.unquote on the cookie values in play: %2F is "/"
unquote(s) == IF s = "sid%2Fadmin" THEN "sid/admin" ELSE s

\* the handlers published, and the roles_required attribute of each
\* (no entry: the function has no such attribute)
Handlers == {"get_todos", "add_todo", "get_todo", "edit_todo", "delete_todo", "ping"}

RolesAttr == [h \in {"add_todo", "delete_todo", "ping"} |->
                 CASE h = "add_todo"    -> {"staff", "editor"}
                   [] h = "delete_todo" -> {"admin"}
                   [] h = "ping"        -> {}]

\* exception classes and their bases (appbase.errors and the builtins)
Bases(cls) ==
    CASE cls = "AccessDenied"      -> {"AccessDenied", "BaseError", "Exception", "BaseException"}
      [] cls = "BaseError"         -> {"BaseError", "Exception", "BaseException"}
      [] cls = "ValueError"        -> {"ValueError", "Exception", "BaseException"}
      [] cls = "KeyboardInterrupt" -> {"KeyboardInterrupt", "BaseException"}

isinstance(exc, cls) == cls \in Bases(exc.cls)

Exc(cls, msg, data) == [cls |-> cls, msg |-> msg, data |-> data]

\* BaseError.to_dict(): the message and the optional data
to_dict(err) == [msg |-> err.msg, data |-> err.data]

Returned(st, value) == [current |-> st.current, trace |-> st.trace,
                        raised |-> FALSE, value |-> value, exc |-> Exc(None, None, EmptyDict)]

Raised(st, exc) == [current |-> st.current, trace |-> st.trace,
                    raised |-> TRUE, value |-> [is_dict |-> FALSE, payload |-> None], exc |-> exc]

\* what a handler may do when it is called: return a mapping or a list, or raise
HandlerOutcomes ==
    {[raises |-> FALSE, value |-> [is_dict |-> d, payload |-> "todos"],
      exc |-> Exc(None, None, EmptyDict)] : d \in BOOLEAN}
    \cup
    {[raises |-> TRUE, value |-> [is_dict |-> FALSE, payload |-> None],
      exc |-> Exc(c, "boom", EmptyDict)] :
        c \in {"AccessDenied", "BaseError", "ValueError", "KeyboardInterrupt"}}

----------------------------------------------------------------------------
(* Callables *)

Function(h) == [wrappers |-> <<>>, fn |-> h]

\* getattr(f, 'roles_required', None).  functools.wraps copies the wrapped
\* function's __dict__, so the attribute of the handler is visible on every
\* wrapper around it.  None and the empty collection are both false: {} here.
roles_required(f) == Get(RolesAttr, f.fn, {})

dbtransaction(f) == [f EXCEPT !.wrappers = <<"dbtransaction">> \o @]

protected_always(f) == [f EXCEPT !.wrappers = <<"protected">> \o @]

protected(f) ==
    IF roles_required(f) = {} THEN f
    ELSE [f EXCEPT !.wrappers = <<"protected">> \o @]

view_func_tx_outside(handler) == dbtransaction(protected(Function(handler)))

\* the callable add_url_rule hands to flaskapi
view_func(handler) == protected(dbtransaction(Function(handler)))

----------------------------------------------------------------------------
(* The wrappers *)

RECURSIVE Call(_, _, _, _)

Log(st, ev, arg) == [st EXCEPT !.trace = Append1(@, ev, arg)]

\* dbtransaction.wrapper
dbtransaction_wrapper_no_abort(f, kw, st, outcome) ==
    LET r == Call(f, kw, Log(st, "tr_start", None), outcome)
    IN  IF ~r.raised
        THEN Returned(Log(Log(r, "tr_complete", None), "dbtransaction.return", r.value), r.value)
        ELSE Raised(Log(r, "dbtransaction.raise", r.exc), r.exc)

dbtransaction_wrapper(f, kw, st, outcome) ==
    LET r == Call(f, kw, Log(st, "tr_start", None), outcome)
    IN  IF ~r.raised
        THEN Returned(Log(Log(r, "tr_complete", None), "dbtransaction.return", r.value), r.value)
        ELSE IF isinstance(r.exc, "Exception")
             THEN Raised(Log(Log(r, "tr_abort", None), "dbtransaction.raise", r.exc), r.exc)
             ELSE Raised(Log(r, "dbtransaction.raise", r.exc), r.exc)

\* protected.wrapper
protected_wrapper_no_check(f, kw, st, outcome) ==
    LET popped     == Get(kw, "_session_id", None)
        session_id == IF Truthy(popped) THEN popped
                      ELSE IF "sid" \in DOMAIN st.current THEN st.current.sid
                      ELSE None
    IN  IF ~Truthy(session_id)
        THEN LET e == Exc("AccessDenied", "session not found", EmptyDict)
             IN  Raised(Log(st, "raise", [exc |-> e, current |-> st.current]), e)
        ELSE
        LET ug == sid2uidgroups(session_id)
            c  == SetAttr(SetAttr(SetAttr(st.current, "sid", session_id),
                                  "uid", ug.uid), "groups", ug.groups)
            s1 == [Log(st, "sid2uidgroups", session_id) EXCEPT !.current = c]
        IN  Call(f, Without(kw, "_session_id"), s1, outcome)

protected_wrapper(f, kw, st, outcome) ==
    LET popped     == Get(kw, "_session_id", None)
        session_id == IF Truthy(popped) THEN popped
                      ELSE IF "sid" \in DOMAIN st.current THEN st.current.sid
                      ELSE None
    IN  IF ~Truthy(session_id)
        THEN LET e == Exc("AccessDenied", "session not found", EmptyDict)
             IN  Raised(Log(st, "raise", [exc |-> e, current |-> st.current]), e)
        ELSE
        LET ug == sid2uidgroups(session_id)
            c  == SetAttr(SetAttr(SetAttr(st.current, "sid", session_id),
                                  "uid", ug.uid), "groups", ug.groups)
            s1 == [Log(st, "sid2uidgroups", session_id) EXCEPT !.current = c]
        IN  IF c.groups \cap roles_required(f) = {}
            THEN LET e == Exc("AccessDenied", None,
                              [k \in {"groups", "roles_required"} |->
                                  IF k = "groups" THEN ug.groups ELSE roles_required(f)])
                 IN  Raised(Log(s1, "raise", [exc |-> e, current |-> s1.current]), e)
            ELSE Call(f, Without(kw, "_session_id"), s1, outcome)

\* the handler itself: what it does is the request's `outcome`
handler_call(f, kw, st, outcome) ==
    LET s1 == Log(st, "handler", [fn |-> f.fn, kw |-> kw])
    IN  IF outcome.raises
        THEN Raised(Log(s1, "handler.raise", outcome.exc), outcome.exc)
        ELSE Returned(Log(s1, "handler.return", outcome.value), outcome.value)

\* f(*args, **kw) for a callable f
Call(f, kw, st, outcome) ==
    IF f.wrappers = <<>> THEN handler_call(f, kw, st, outcome)
    ELSE LET inner == [f EXCEPT !.wrappers = Tail(@)]
         IN  IF Head(f.wrappers) = "protected"
             THEN protected_wrapper(inner, kw, st, outcome)
             ELSE dbtransaction_wrapper(inner, kw, st, outcome)

----------------------------------------------------------------------------
(* flaskapi *)

NoBody == [kind |-> "none", encoder |-> None, payload |-> None, err |-> None, err_id |-> None]

\* app.make_default_options_response(): an empty 200 response
make_default_options_response ==
    [kind |-> "response", status_code |-> 200,
     body |-> [NoBody EXCEPT !.kind = "default_options"],
     headers |-> EmptyDict, exc |-> Exc(None, None, EmptyDict)]

\* jsonify(result) / jsonify_unsafe(result): a 200 response with the body encoded
jsonify(body) ==
    [kind |-> "response", status_code |-> 200, body |-> [body EXCEPT !.encoder = "jsonify"],
     headers |-> EmptyDict, exc |-> Exc(None, None, EmptyDict)]

jsonify_unsafe(body) ==
    [kind |-> "response", status_code |-> 200, body |-> [body EXCEPT !.encoder = "jsonify_unsafe"],
     headers |-> EmptyDict, exc |-> Exc(None, None, EmptyDict)]

\* the wrapper raised: no response object was built
Propagated(exc) ==
    [kind |-> "raised", status_code |-> 0, body |-> NoBody, headers |-> EmptyDict, exc |-> exc]

add_cors_headers(resp, req) ==
    [resp EXCEPT !.headers =
        Update(@, [h \in {"Access-Control-Allow-Origin", "Access-Control-Max-Age",
                          "Access-Control-Allow-Methods", "Access-Control-Allow-Headers"} |->
            CASE h = "Access-Control-Allow-Origin"  -> "*"
              [] h = "Access-Control-Max-Age"       -> "10368000"
              [] h = "Access-Control-Allow-Methods" -> "GET, POST, PUT, OPTIONS, PATCH"
              [] h = "Access-Control-Allow-Headers" ->
                     Get(req.headers, "Access-Control-Request-Headers", "")])]

\* json.loads(request.data)
json_loads_ok(data) == data.valid

\* request.json or (request.data and json.loads(request.data)) or request.form,
\* when json.loads does not raise
request_kwargs(req) ==
    IF DOMAIN req.json # {} THEN req.json
    ELSE IF req.data.empty THEN req.form
    ELSE IF DOMAIN req.data.value # {} THEN req.data.value
    ELSE req.form

\* lines 62-83: call f, map what it did to a result and a status, encode
flaskapi_call_swapped_excepts(f, kw, st, outcome, err_id) ==
    LET r == Call(f, kw, st, outcome)
        done(s, result, status_code) ==
            LET resp == IF result.kind = "error" \/ result.kind = "server_error"
                           \/ (result.kind = "result" /\ result.payload.is_dict)
                        THEN jsonify(result) ELSE jsonify_unsafe(result)
            IN  [current |-> s.current,
                 trace |-> Append1(s.trace, resp.body.encoder, None),
                 response |-> [resp EXCEPT !.status_code = status_code]]
    IN  IF ~r.raised
        THEN done(r, [NoBody EXCEPT !.kind = "result", !.payload = r.value], 200)
        ELSE IF isinstance(r.exc, "BaseError")
        THEN done(Log(r, "logger.exception", "API Execution error: "),
                  [NoBody EXCEPT !.kind = "error", !.err = to_dict(r.exc)], 500)
        ELSE IF isinstance(r.exc, "AccessDenied")
        THEN done(Log(r, "logger.exception", "Access Denied error: "),
                  [NoBody EXCEPT !.kind = "error", !.err = to_dict(r.exc)], 403)
        ELSE IF isinstance(r.exc, "Exception")
        THEN done(Log(Log(r, "logger.exception", err_id), "logger.error", err_id),
                  [NoBody EXCEPT !.kind = "server_error", !.err_id = err_id], 500)
        ELSE [current |-> r.current, trace |-> r.trace, response |-> Propagated(r.exc)]

flaskapi_call(f, kw, st, outcome, err_id) ==
    LET r == Call(f, kw, st, outcome)
        done(s, result, status_code) ==
            LET resp == IF result.kind = "error" \/ result.kind = "server_error"
                           \/ (result.kind = "result" /\ result.payload.is_dict)
                        THEN jsonify(result) ELSE jsonify_unsafe(result)
            IN  [current |-> s.current,
                 trace |-> Append1(s.trace, resp.body.encoder, None),
                 response |-> [resp EXCEPT !.status_code = status_code]]
    IN  IF ~r.raised
        THEN done(r, [NoBody EXCEPT !.kind = "result", !.payload = r.value], 200)
        ELSE IF isinstance(r.exc, "AccessDenied")
        THEN done(Log(r, "logger.exception", "Access Denied error: "),
                  [NoBody EXCEPT !.kind = "error", !.err = to_dict(r.exc)], 403)
        ELSE IF isinstance(r.exc, "BaseError")
        THEN done(Log(r, "logger.exception", "API Execution error: "),
                  [NoBody EXCEPT !.kind = "error", !.err = to_dict(r.exc)], 500)
        ELSE IF isinstance(r.exc, "Exception")
        THEN done(Log(Log(r, "logger.exception", err_id), "logger.error", err_id),
                  [NoBody EXCEPT !.kind = "server_error", !.err_id = err_id], 500)
        ELSE [current |-> r.current, trace |-> r.trace, response |-> Propagated(r.exc)]

\* flaskapi.wrapper, whole
flaskapi_wrapper_no_options_branch(f, req, cur, outcome, err_id) ==
    LET c1 == SetAttr(SetAttr(cur, "uid", 0), "groups", {})
        session_id == Get(req.cookies, "session_id", None)
        c2 == IF Truthy(session_id) THEN SetAttr(c1, "sid", unquote(session_id)) ELSE c1
        st == [current |-> c2, trace |-> <<>>]
    IN  IF ~req.data.empty /\ DOMAIN req.json = {} /\ ~json_loads_ok(req.data)
        THEN [current |-> c2, trace |-> <<>>,
              response |-> Propagated(Exc("ValueError", "No JSON object could be decoded", EmptyDict))]
        ELSE LET r == flaskapi_call(f, Update(req.view_args, request_kwargs(req)), st, outcome, err_id)
             IN  [r EXCEPT !.response =
                     IF @.kind = "response" THEN add_cors_headers(@, req) ELSE @]

flaskapi_wrapper(f, req, cur, outcome, err_id) ==
    LET c1 == SetAttr(SetAttr(cur, "uid", 0), "groups", {})
        session_id == Get(req.cookies, "session_id", None)
        c2 == IF Truthy(session_id) THEN SetAttr(c1, "sid", unquote(session_id)) ELSE c1
        st == [current |-> c2, trace |-> <<>>]
    IN  IF req.method = "OPTIONS"
        THEN [current |-> c2, trace |-> <<>>,
              response |-> add_cors_headers(make_default_options_response, req)]
        ELSE IF ~req.data.empty /\ DOMAIN req.json = {} /\ ~json_loads_ok(req.data)
        THEN [current |-> c2, trace |-> <<>>,
              response |-> Propagated(Exc("ValueError", "No JSON object could be decoded", EmptyDict))]
        ELSE LET r == flaskapi_call(f, Update(req.view_args, request_kwargs(req)), st, outcome, err_id)
             IN  [r EXCEPT !.response =
                     IF @.kind = "response" THEN add_cors_headers(@, req) ELSE @]

flaskapi(f) == [f EXCEPT !.wrappers = <<"flaskapi">> \o @]

----------------------------------------------------------------------------
(* Publishers *)

\* add_url_rule(app, url, handler, methods): the list `methods` after the
\* append, and the app's rules after app.add_url_rule
add_url_rule(rules, url, handler, methods) ==
    LET appended == Append(methods, "OPTIONS")
    IN  [methods |-> appended,
         url_map |-> Append(rules, [rule |-> url, endpoint |-> None,
                                    view_func |-> flaskapi(view_func(handler)),
                                    methods |-> appended])]

\* RESTPublisher.map_resource(url, handlers, resource_id) on an app with `rules`.
\* `raise NotImplemented` raises TypeError: NotImplemented is no exception.
map_resource_put_for_edit(rules, urls_prefix, url, handlers, resource_id) ==
    LET collection_url == <<urls_prefix, url>>
        resource_url   == collection_url \o <<"<", resource_id[1], ":", resource_id[2], ">">>
        reg(rs, h, u, m) == IF h # None THEN add_url_rule(rs, u, h, <<m>>).url_map ELSE rs
        h == handlers.items
    IN  IF handlers.type \notin {"list", "tuple"} THEN [url_map |-> rules, raised |-> "TypeError"]
        ELSE IF Len(h) # 5 THEN [url_map |-> rules, raised |-> "ValueError"]
        ELSE [raised |-> None,
              url_map |->
                reg(reg(reg(reg(reg(rules, h[1], collection_url, "GET"),
                                h[2], collection_url, "POST"),
                            h[3], resource_url, "GET"),
                        h[4], resource_url, "PUT"),
                    h[5], resource_url, "DELETE")]

map_resource(rules, urls_prefix, url, handlers, resource_id) ==
    LET collection_url == <<urls_prefix, url>>
        resource_url   == collection_url \o <<"<", resource_id[1], ":", resource_id[2], ">">>
        reg(rs, h, u, m) == IF h # None THEN add_url_rule(rs, u, h, <<m>>).url_map ELSE rs
        h == handlers.items
    IN  IF handlers.type \notin {"list", "tuple"} THEN [url_map |-> rules, raised |-> "TypeError"]
        ELSE IF Len(h) # 5 THEN [url_map |-> rules, raised |-> "ValueError"]
        ELSE [raised |-> None,
              url_map |->
                reg(reg(reg(reg(reg(rules, h[1], collection_url, "GET"),
                                h[2], collection_url, "POST"),
                            h[3], resource_url, "GET"),
                        h[4], resource_url, "POST"),
                    h[5], resource_url, "DELETE")]

\* HTTPPublisher.add_mapping(url, handler, methods=['GET']): `methods` is the
\* list passed, or the one default list object, which add_url_rule appends to
add_mapping(rules, defaults, url, handler, methods, use_default) ==
    LET r == add_url_rule(rules, url, handler, IF use_default THEN defaults ELSE methods)
    IN  [url_map |-> r.url_map,
         defaults |-> IF use_default THEN r.methods ELSE defaults]

----------------------------------------------------------------------------
(* State machine *)

MaxCalls == 2

Range(seq) == {seq[i] : i \in DOMAIN seq}

NoData == [empty |-> TRUE, valid |-> TRUE, value |-> EmptyDict]

NoRequest ==
    [rule |-> 0, method |-> None, cookies |-> EmptyDict, headers |-> EmptyDict,
     json |-> EmptyDict, data |-> NoData, form |-> EmptyDict, view_args |-> EmptyDict]

NoResponse == [Propagated(Exc(None, None, EmptyDict)) EXCEPT !.kind = "none"]

Pending == [NoResponse EXCEPT !.kind = "pending"]

NoCall == [n |-> 0, op |-> None, handlers |-> <<>>, methods |-> <<>>,
           before |-> <<>>, raised |-> None]

\* the application's set-up: one resource and one plain mapping
TodoHandlers ==
    [type |-> "tuple",
     items |-> <<"get_todos", "add_todo", "get_todo", "edit_todo", "delete_todo">>]

AppSetup ==
    LET r == map_resource(<<>>, "/api/", "todos/", TodoHandlers, <<"string", "id">>)
    IN  add_mapping(r.url_map, <<"GET">>, <<"/ping">>, "ping", <<>>, TRUE)

\* request bodies: (request.json, request.data, request.form)
Kw(sid) == [k \in {"_session_id", "title"} |-> IF k = "title" THEN "x" ELSE sid]

Bodies ==
    { [json |-> EmptyDict, data |-> NoData, form |-> EmptyDict],
      [json |-> Kw("sid/admin"), data |-> NoData, form |-> EmptyDict],
      [json |-> EmptyDict,
       data |-> [empty |-> FALSE, valid |-> TRUE, value |-> Kw("sid-guest")],
       form |-> EmptyDict],
      [json |-> EmptyDict,
       data |-> [empty |-> FALSE, valid |-> FALSE, value |-> EmptyDict],
       form |-> EmptyDict],
      [json |-> EmptyDict, data |-> NoData, form |-> [k \in {"title"} |-> "x"]] }

CookieJars ==
    {EmptyDict} \cup {[k \in {"session_id"} |-> v] : v \in {"", "sid%2Fadmin", "sid-guest"}}

HeaderSets ==
    {EmptyDict, [k \in {"Access-Control-Request-Headers"} |-> "X-Token"]}

\* the requests werkzeug routes to rule i of the map
RequestsTo(rules, i) ==
    { [rule |-> i, method |-> m, cookies |-> c, headers |-> h,
       json |-> b.json, data |-> b.data, form |-> b.form,
       view_args |-> IF Len(rules[i].rule) > 2
                     THEN [k \in {"id"} |-> "abc"] ELSE EmptyDict] :
        m \in Range(rules[i].methods), c \in CookieJars, h \in HeaderSets, b \in Bodies }

ErrIds == {"0417", "9382"}

Init ==
    /\ current = NewContext
    /\ request = NoRequest
    /\ trace = <<>>
    /\ response = NoResponse
    /\ url_map = AppSetup.url_map
    /\ add_mapping_defaults = AppSetup.defaults
    /\ last_call = NoCall

\* a request arrives and is bound to flask.request
Receive(req) ==
    /\ response.kind # "pending"
    /\ request' = req
    /\ trace' = <<>>
    /\ response' = Pending
    /\ UNCHANGED <<current, url_map, add_mapping_defaults, last_call>>

\* the rule's view function runs; the handler, if called, does `outcome`
Serve(outcome, err_id) ==
    /\ response.kind = "pending"
    /\ LET view == url_map[request.rule].view_func
           r == flaskapi_wrapper([view EXCEPT !.wrappers = Tail(@)],
                                 request, current, outcome, err_id)
       IN  /\ current' = r.current
           /\ trace' = r.trace
           /\ response' = r.response
    /\ UNCHANGED <<request, url_map, add_mapping_defaults, last_call>>

Next ==
    \/ \E i \in DOMAIN url_map : \E req \in RequestsTo(url_map, i) : Receive(req)
    \/ \E outcome \in HandlerOutcomes, err_id \in ErrIds : Serve(outcome, err_id)

Spec == Init /\ [][Next]_vars

----------------------------------------------------------------------------
(* Publishing: the calls that build the URL map *)

HandlerTuples ==
    { [type |-> "tuple",
       items |-> [i \in 1..5 |-> IF i \in present THEN TodoHandlers.items[i] ELSE None]] :
        present \in SUBSET (1..5) }
    \cup {[type |-> "dict", items |-> <<>>]}

InitMap ==
    /\ current = NewContext
    /\ request = NoRequest
    /\ trace = <<>>
    /\ response = NoResponse
    /\ url_map = <<>>
    /\ add_mapping_defaults = <<"GET">>
    /\ last_call = NoCall

\* publisher.map_resource('todos/', handlers)
MapResource(handlers) ==
    /\ last_call.n < MaxCalls
    /\ LET r == map_resource(url_map, "/api/", "todos/", handlers, <<"string", "id">>)
       IN  /\ url_map' = r.url_map
           /\ last_call' = [n |-> last_call.n + 1, op |-> "map_resource",
                            handlers |-> handlers.items, methods |-> <<>>,
                            before |-> url_map, raised |-> r.raised]
    /\ UNCHANGED <<current, request, trace, response, add_mapping_defaults>>

\* publisher.add_mapping('/ping', handler) or add_mapping('/ping', handler, methods)
AddMapping(handler, methods, use_default) ==
    /\ last_call.n < MaxCalls
    /\ LET r == add_mapping(url_map, add_mapping_defaults, <<"/ping">>, handler,
                            methods, use_default)
       IN  /\ url_map' = r.url_map
           /\ add_mapping_defaults' = r.defaults
           /\ last_call' = [n |-> last_call.n + 1, op |-> "add_mapping",
                            handlers |-> <<handler>>,
                            methods |-> IF use_default THEN add_mapping_defaults ELSE methods,
                            before |-> url_map, raised |-> None]
    /\ UNCHANGED <<current, request, trace, response>>

NextMap ==
    \/ \E handlers \in HandlerTuples : MapResource(handlers)
    \/ \E handler \in {"ping", "delete_todo"} :
          \/ AddMapping(handler, <<>>, TRUE)
          \/ AddMapping(handler, <<"POST">>, FALSE)

SpecMap == InitMap /\ [][NextMap]_vars

----------------------------------------------------------------------------
(* Properties *)

Idx(ev) == {i \in DOMAIN trace : trace[i].ev = ev}

Happened(ev) == Idx(ev) # {}

\* every b is preceded by an a
Precedes(a, b) == \A j \in Idx(b) : \E i \in Idx(a) : i < j

Done == response.kind \in {"response", "raised"}

Responded == response.kind = "response"

HandlerOf == url_map[request.rule].view_func.fn

RolesOf == roles_required(url_map[request.rule].view_func)

\* the raw body is not JSON, so flaskapi's json.loads raises before the chain is called
BadBody == DOMAIN request.json = {} /\ ~request.data.empty /\ ~request.data.valid

\* the request was served by calling the chain protected(dbtransaction(handler))
ChainCalled == Done /\ request.method # "OPTIONS" /\ ~BadBody

\* the keyword arguments flaskapi passes to the chain
GivenKw == Update(request.view_args, request_kwargs(request))

HandlerInvoked == Happened("handler")

ResolverConsulted == Happened("sid2uidgroups")

Serialized == Happened("jsonify") \/ Happened("jsonify_unsafe")

CorsHeaders ==
    /\ DOMAIN response.headers = {"Access-Control-Allow-Origin", "Access-Control-Max-Age",
                                  "Access-Control-Allow-Methods", "Access-Control-Allow-Headers"}
    /\ response.headers["Access-Control-Allow-Origin"] = "*"
    /\ response.headers["Access-Control-Max-Age"] = "10368000"
    /\ response.headers["Access-Control-Allow-Methods"] = "GET, POST, PUT, OPTIONS, PATCH"
    /\ response.headers["Access-Control-Allow-Headers"] =
          IF "Access-Control-Request-Headers" \in DOMAIN request.headers
          THEN request.headers["Access-Control-Request-Headers"] ELSE ""

\* C1: for a handler with a non-empty roles_required R, a non-OPTIONS request
\* whose session id the gate resolved (sid2uidgroups) to groups G with
\* G \cap R = {} is answered with status 403, and the handler is not invoked.
C1_DisjointGroupsGive403 ==
    (/\ Done
     /\ request.method # "OPTIONS"
     /\ RolesOf # {}
     /\ \E i \in Idx("sid2uidgroups") :
           sid2uidgroups(trace[i].arg).groups \cap RolesOf = {})
    => (Responded /\ response.status_code = 403 /\ ~HandlerInvoked)

C1_Witness ==
    /\ Done /\ request.method = "POST" /\ HandlerOf = "add_todo"
    /\ Get(request.cookies, "session_id", None) = "sid-guest"
    /\ ResolverConsulted
    /\ response.status_code = 403

\* C2: a non-OPTIONS request to a handler with required roles that carries
\* neither a session_id cookie nor a _session_id argument is answered 403 with
\* the AccessDenied error, the handler is not invoked and the session resolver
\* is not consulted, whatever earlier requests carried.
C2_NoSessionIsDenied ==
    (/\ ChainCalled
     /\ RolesOf # {}
     /\ "session_id" \notin DOMAIN request.cookies
     /\ "_session_id" \notin DOMAIN GivenKw)
    => (/\ Responded /\ response.status_code = 403
        /\ ~HandlerInvoked
        /\ ~ResolverConsulted)

\* C10: whenever the gate raises AccessDenied, context.current's uid and groups
\* are the anonymous default (0, empty) set by flaskapi, at the raise and when
\* the response is returned.
C10_DeniedStaysAnonymous ==
    (Done /\ Happened("raise"))
    => (/\ \A i \in Idx("raise") :
              trace[i].arg.current.uid = 0 /\ trace[i].arg.current.groups = {}
        /\ current.uid = 0 /\ current.groups = {})

\* C6: every request served by flaskapi's wrapper ends with a response that
\* carries the four CORS headers; the wrapper never raises instead.
C6_AlwaysCors == Done => (Responded /\ CorsHeaders)

\* C4: an OPTIONS request is answered with the default options response and
\* the CORS headers; the chain is not called: no role check, no session
\* resolver call, no tr_start/tr_complete/tr_abort, no handler.
C4_OptionsNeverCallsHandler ==
    (Done /\ request.method = "OPTIONS")
    => (/\ Responded
        /\ response.status_code = 200
        /\ response.body.kind = "default_options"
        /\ CorsHeaders
        /\ trace = <<>>)

C4_Witness ==
    /\ Done /\ request.method = "OPTIONS" /\ HandlerOf = "delete_todo"
    /\ "session_id" \notin DOMAIN request.cookies
    /\ DOMAIN request.json # {}
    /\ response.headers["Access-Control-Allow-Headers"] = "X-Token"

\* how the chain protected(dbtransaction(handler)) ended: the gate's raise, or
\* the return or raise of dbtransaction's wrapper
ExitIdx ==
    {i \in DOMAIN trace : trace[i].ev \in {"raise", "dbtransaction.return", "dbtransaction.raise"}}

ChainExit == trace[CHOOSE i \in ExitIdx : \A j \in ExitIdx : j <= i]

ChainExc == IF ChainExit.ev = "raise" THEN ChainExit.arg.exc ELSE ChainExit.arg

EncodedResult(value) ==
    /\ Responded /\ response.status_code = 200
    /\ response.body.kind = "result"
    /\ response.body.payload = value
    /\ response.body.encoder = IF value.is_dict THEN "jsonify" ELSE "jsonify_unsafe"

EncodedError(status_code, e) ==
    /\ Responded /\ response.status_code = status_code
    /\ response.body.kind = "error"
    /\ response.body.err = to_dict(e)

HiddenError(e) ==
    /\ Responded /\ response.status_code = 500
    /\ response.body.kind = "server_error"
    /\ response.body.err_id \in ErrIds
    /\ response.body.err_id # e.msg
    /\ response.body.err = None /\ response.body.payload = None

C9_GateThenTransactionThenResponse ==
    (Done /\ request.method # "OPTIONS") =>
        /\ RolesOf # {} => Precedes("sid2uidgroups", "tr_start")
        /\ Happened("raise") => ~Happened("tr_start")
        /\ Precedes("tr_start", "handler")
        /\ Precedes("handler", "tr_complete") /\ Precedes("handler", "tr_abort")
        /\ \A s \in Idx("jsonify") \cup Idx("jsonify_unsafe") :
              /\ \A i \in DOMAIN trace :
                    trace[i].ev \in {"sid2uidgroups", "raise", "tr_start", "handler",
                                     "tr_complete", "tr_abort"} => i < s
              /\ Happened("tr_start") => Happened("tr_complete") \/ Happened("tr_abort")

C9_Witness ==
    /\ Done /\ HandlerOf = "delete_todo" /\ request.method = "DELETE"
    /\ Events(trace) = <<"sid2uidgroups", "tr_start", "handler", "handler.return",
                         "tr_complete", "dbtransaction.return", "jsonify">>

\* what flaskapi (lines 50-56) leaves in context.current before calling the chain
AdapterContext ==
    LET c == SetAttr(SetAttr(current, "uid", 0), "groups", {})
        session_id == Get(request.cookies, "session_id", None)
    IN  IF Truthy(session_id) THEN SetAttr(c, "sid", unquote(session_id)) ELSE c

\* C8: for a handler without required roles the gate does nothing: serving a
\* non-OPTIONS request calls the handler with exactly the keyword arguments
\* flaskapi passed (a _session_id among them stays), never consults the session
\* resolver, never raises AccessDenied from the gate, and leaves
\* context.current as flaskapi set it.
C8_GateIsNoOpWithoutRoles ==
    [][(/\ response.kind = "pending"
        /\ response'.kind # "pending"
        /\ request.method # "OPTIONS"
        /\ RolesOf = {}
        /\ ~BadBody)
       => (/\ \E i \in DOMAIN trace' :
                 /\ trace'[i].ev = "handler"
                 /\ trace'[i].arg = [fn |-> HandlerOf, kw |-> GivenKw]
           /\ \A i \in DOMAIN trace' : trace'[i].ev \notin {"sid2uidgroups", "raise"}
           /\ current' = AdapterContext)]_vars

C8_Witness ==
    /\ ChainCalled /\ HandlerOf = "get_todos"
    /\ "session_id" \notin DOMAIN request.cookies
    /\ \E i \in Idx("handler") : Get(trace[i].arg.kw, "_session_id", None) = "sid/admin"
    /\ "sid" \notin DOMAIN current

----------------------------------------------------------------------------
(* Properties of publishing *)

NewRules == SubSeq(url_map, Len(last_call.before) + 1, Len(url_map))

CollectionUrl == <<"/api/", "todos/">>

ItemUrl == <<"/api/", "todos/", "<", "string", ":", "id", ">">>

Conventional ==
    <<[url |-> CollectionUrl, method |-> "GET"],
      [url |-> CollectionUrl, method |-> "POST"],
      [url |-> ItemUrl, method |-> "GET"],
      [url |-> ItemUrl, method |-> "POST"],
      [url |-> ItemUrl, method |-> "DELETE"]>>

PresentSlots == {i \in DOMAIN last_call.handlers : last_call.handlers[i] # None}

\* C7: map_resource with a 5-sequence of handlers registers exactly one route
\* per handler that is not None: the collection URL with GET (list) and POST
\* (create), the item URL with GET (get-one), POST (update-one) and DELETE
\* (delete-one), each with OPTIONS added; nothing else is registered and the
\* rules already there stay.
C7_MapResourceRegistersConventionalRoutes ==
    (last_call.op = "map_resource" /\ last_call.raised = None) =>
        /\ SubSeq(url_map, 1, Len(last_call.before)) = last_call.before
        /\ Len(NewRules) = Cardinality(PresentSlots)
        /\ {[url |-> r.rule, methods |-> r.methods, handler |-> r.view_func.fn] :
                r \in Range(NewRules)}
           = {[url |-> Conventional[i].url,
               methods |-> <<Conventional[i].method, "OPTIONS">>,
               handler |-> last_call.handlers[i]] : i \in PresentSlots}

C7_Witness ==
    /\ last_call.op = "map_resource"
    /\ last_call.handlers = <<"get_todos", None, None, "edit_todo", None>>
    /\ Len(last_call.before) > 0
    /\ Len(url_map) = Len(last_call.before) + 2

====
